---- MODULE Spec2Model ----
(***************************************************************************)
(* Client-side sharding ring of the go-redis helper (ring.go): the shard   *)
(* handle with its failure counter, the shard registry (ringShards) with   *)
(* its consistent-hash ring, the heartbeat loop, the pipeline executor     *)
(* (defaultProcessPipeline) and the fan-out ForEachShard.                   *)
(***************************************************************************)
EXTENDS Integers, Sequences, FiniteSets, TLC

\* ------------------------------------------------------------------------
\* Configuration and bounds
\* ------------------------------------------------------------------------

\* RingOptions.Addrs: the names of the shards given to NewRing.
Names == {"a", "b", "c"}

\* The empty string a lookup in an empty ring returns, and the map key of the
\* operations that carry no routing key.
EmptyName == ""

\* Replica positions per shard (the source sets 100; bounded here).
nreplicas == 3

\* RingOptions.MaxRetries of the modelled client.
MaxRetries == 1

\* Number of Close calls a behaviour may make.
MaxCloseCalls == 2

\* The decimal strings Random may draw are those of 0..MaxRand.
MaxRand == 5

\* Size of the hash space the ring positions live in.
HashSpace == 61

\* Multiplier of the modelled hash function.
HashMult == 17

\* Numeric code of each shard name, used to form its replica labels.
NameCode == [n \in Names |-> CASE n = "a" -> 1 [] n = "b" -> 2 [] n = "c" -> 3]

\* Routing keys commands may carry; "{k1}x" carries the hash tag k1.
Keys == {"k1", "k2", "k3", "k4", "{k1}x"}

KeyCode == [k \in {"k1", "k2", "k3", "k4"} |->
              CASE k = "k1" -> 7 [] k = "k2" -> 9 [] k = "k3" -> 5 [] k = "k4" -> 8]

\* ------------------------------------------------------------------------
\* Errors
\* ------------------------------------------------------------------------

NoErr == "nil"
errRingShardsDown == "redis: all ring shards are down"
ErrClosed == "redis: client is closed"
ErrPoolTimeout == "redis: connection pool timeout"
NilShard == "nilshard"

\* ------------------------------------------------------------------------
\* consistenthash.Map
\* ------------------------------------------------------------------------

\* The deterministic hash function of the ring.
Hash(x) == (x * HashMult) % HashSpace

\* The replica label of shard name n, replica i: strconv.Itoa(i) + n.
Label(n, i) == i * 10 + NameCode[n]

\* consistenthash.New(replicas, nil): an empty ring.
New(replicas) == [nil |-> FALSE, replicas |-> replicas, names |-> {}]

\* The ring pointer Close leaves behind.
NilMap == [nil |-> TRUE, replicas |-> 0, names |-> {}]

\* Map.Add(name): inserts the replica positions of name.
MapAdd(m, n) == [m EXCEPT !.names = @ \cup {n}]

\* Map.Add of every name of a set.
MapAddAll(m, S) == [m EXCEPT !.names = @ \cup S]

\* The positions a shard owns in a ring of r replicas per shard.
PositionsOf(n, r) == {Hash(Label(n, i)) : i \in 0..(r - 1)}

\* Map.Get on a key hash h: the owner of the nearest position at or after h,
\* wrapping around to the first position; "" when the ring has no members.
Lookup(S, r, h) ==
    IF S = {} THEN EmptyName
    ELSE LET ps    == UNION {PositionsOf(n, r) : n \in S}
             after == {p \in ps : p >= h}
             pick  == IF after # {}
                      THEN CHOOSE p \in after : \A q \in after : p <= q
                      ELSE CHOOSE p \in ps : \A q \in ps : p <= q
         IN  CHOOSE n \in S : pick \in PositionsOf(n, r)

\* Map.Get on a key hash h.
GetAt(m, h) == Lookup(m.names, m.replicas, h)

\* Map.Get(key).
MapGet(m, key) == GetAt(m, Hash(KeyCode[key]))

\* hashtag.Key: a key with a non-empty {tag} routes by the tag alone.
hashtagKey(key) == IF key = "{k1}x" THEN "k1" ELSE key

\* ------------------------------------------------------------------------
\* State
\* ------------------------------------------------------------------------

VARIABLES
    down,        \* ringShard.down of every shard handle
    hash,        \* ringShards.hash
    shards,      \* ringShards.shards: the names the map holds
    list,        \* ringShards.list
    closed,      \* ringShards.closed
    clientOpen,  \* whether each shard's Client is still open
    hb,          \* the Heartbeat goroutine: position and locals
    streak,      \* history: consecutive down votes since the last up vote
    lastVote,    \* history: the last Vote call and its result
    sweep,       \* history: the votes and rebuilds of the current heartbeat sweep
    mu,          \* ringShards.mu: who holds the write lock
    acc,         \* history: the last access to a field of the registry
    lastRes,     \* history: the last GetByKey call and its result
    prevHash,    \* history: the ring the last rebalance replaced
    closeLog,    \* history: Close calls made, with what each returned
    closeCount,  \* history: how often each shard's Client.Close was called
    p,           \* one defaultProcessPipeline call: position, locals, history
    fe           \* one ForEachShard call: position, locals, history

regVars == <<down, hash, shards, list, closed, clientOpen, hb>>
voteHist == <<streak, lastVote, sweep, mu, acc, prevHash>>
histVars == <<streak, lastVote, sweep, mu, acc, prevHash, lastRes, closeLog, closeCount, p, fe>>
regHist == <<streak, lastVote, sweep, mu, acc, prevHash, lastRes, closeLog, closeCount, fe>>
vars == <<down, hash, shards, list, closed, clientOpen, hb,
          streak, lastVote, sweep, mu, acc, prevHash, lastRes, closeLog, closeCount, p, fe>>

\* ------------------------------------------------------------------------
\* ringShard
\* ------------------------------------------------------------------------

threshold == 3

\* ringShard.IsDown on a counter value.
IsDown(d) == d >= threshold

\* ringShard.IsUp.
IsUp(d) == ~IsDown(d)

\* ringShard.Vote on counter value d: the new counter and the returned flag.
VoteBug(d, up) ==
    IF up THEN [down |-> 0, changed |-> IsDown(d)]
    ELSE [down |-> d + 1, changed |-> IsDown(d + 1)]

Vote(d, up) ==
    IF up THEN [down |-> 0, changed |-> IsDown(d)]
    ELSE IF IsDown(d) THEN [down |-> d, changed |-> FALSE]
    ELSE [down |-> d + 1, changed |-> IsDown(d + 1)]

\* ------------------------------------------------------------------------
\* ringShards: resolution
\* ------------------------------------------------------------------------

\* ringShards.GetByKey after the key is hashed to position h: under the read
\* lock, the closed check first, then the ring lookup, then the map read.
GetByKeyAtBug(h) ==
    IF ~hash.nil /\ GetAt(hash, h) = EmptyName
    THEN [shard |-> NilShard, err |-> errRingShardsDown]
    ELSE IF closed THEN [shard |-> NilShard, err |-> ErrClosed]
    ELSE [shard |-> GetAt(hash, h), err |-> NoErr]

GetByKeyAt(h) ==
    IF closed THEN [shard |-> NilShard, err |-> ErrClosed]
    ELSE LET name == GetAt(hash, h)
         IN  IF name = EmptyName
             THEN [shard |-> NilShard, err |-> errRingShardsDown]
             ELSE [shard |-> (IF name \in shards THEN name ELSE NilShard),
                   err |-> NoErr]

\* ringShards.GetByKey(key).
GetByKey(key) == GetByKeyAt(Hash(KeyCode[hashtagKey(key)]))

\* GetByHash with Random drawing from the shard list instead of the ring.
GetByHashAny(name, r) ==
    IF name = EmptyName
    THEN IF closed THEN [shard |-> NilShard, err |-> ErrClosed]
         ELSE [shard |-> (IF list = <<>> THEN NilShard ELSE list[(r % Len(list)) + 1]),
               err |-> NoErr]
    ELSE [shard |-> (IF name \in shards THEN name ELSE NilShard), err |-> NoErr]

\* ringShards.GetByHash(name), r being the random integer Random draws.
GetByHash(name, r) ==
    IF name = EmptyName THEN GetByKeyAt(Hash(r))
    ELSE [shard |-> (IF name \in shards THEN name ELSE NilShard), err |-> NoErr]

\* ------------------------------------------------------------------------
\* ringShards.Heartbeat and ringShards.rebalance
\* ------------------------------------------------------------------------

\* What Ping on a shard's client may return.
PingResults(n) ==
    IF clientOpen[n] THEN {NoErr, ErrPoolTimeout, "ping failed"} ELSE {ErrClosed}

\* The vote Heartbeat casts for a probe result.
ProbeVoteStrict(err) == err = NoErr

ProbeVote(err) == err = NoErr \/ err = ErrPoolTimeout

\* A tick arrives: under the read lock, leave the loop if closed, otherwise
\* snapshot the list and start the sweep.
HbTickIgnoreClosed ==
    /\ hb.pc = "wait"
    /\ hb' = [hb EXCEPT !.pc = IF list = <<>> THEN "wait" ELSE "probe",
                          !.shards = list, !.i = 1, !.rebalance = FALSE]
    /\ UNCHANGED <<down, hash, shards, list, closed, clientOpen>>

HbTick ==
    /\ hb.pc = "wait"
    /\ IF closed
       THEN hb' = [hb EXCEPT !.pc = "done"]
       ELSE hb' = [hb EXCEPT !.pc = IF list = <<>> THEN "wait" ELSE "probe",
                             !.shards = list, !.i = 1, !.rebalance = FALSE]
    /\ UNCHANGED <<down, hash, shards, list, closed, clientOpen>>

\* if shard.Vote(...) { rebalance = true }: the flag after a vote that
\* reported changed.
noteChangeLast(rebalance, changed) == changed

noteChange(rebalance, changed) == rebalance \/ changed

\* One iteration of the sweep: ping the shard, vote, note a status change.
HbProbe(err) ==
    /\ hb.pc = "probe"
    /\ LET n == hb.shards[hb.i]
           v == Vote(down[n], ProbeVote(err))
           rb == noteChange(hb.rebalance, v.changed)
           last == hb.i = Len(hb.shards)
       IN  /\ err \in PingResults(n)
           /\ down' = [down EXCEPT ![n] = v.down]
           /\ hb' = [hb EXCEPT !.i = IF last THEN 1 ELSE @ + 1,
                               !.rebalance = rb,
                               !.shards = IF last THEN <<>> ELSE @,
                               !.pc = IF ~last THEN "probe"
                                      ELSE IF rb THEN "rebalance" ELSE "wait"]
    /\ UNCHANGED <<hash, shards, list, closed, clientOpen>>

\* The ring rebalance builds: a new ring of nreplicas replicas holding the up
\* shards of the map it reads (without the lock).
UpRingAll == MapAddAll(New(nreplicas), shards)

UpRingReplicas == MapAddAll(New(nreplicas + 1), {n \in shards : IsUp(down[n])})

UpRing == MapAddAll(New(nreplicas), {n \in shards : IsUp(down[n])})

\* rebalance, first half: build the new ring privately.
HbRebalanceBuildInPlace ==
    /\ hb.pc = "rebalance"
    /\ hb' = [hb EXCEPT !.pc = "install", !.built = UpRing]
    /\ hash' = New(nreplicas)
    /\ UNCHANGED <<down, shards, list, closed, clientOpen>>

HbRebalanceBuild ==
    /\ hb.pc = "rebalance"
    /\ hb' = [hb EXCEPT !.pc = "install", !.built = UpRing]
    /\ UNCHANGED <<down, hash, shards, list, closed, clientOpen>>

\* rebalance, second half: install the new ring under the write lock.
HbRebalanceInstall ==
    /\ hb.pc = "install"
    /\ hash' = hb.built
    /\ hb' = [hb EXCEPT !.pc = "wait", !.built = New(nreplicas), !.rebalance = FALSE]
    /\ UNCHANGED <<down, shards, list, closed, clientOpen>>

\* ------------------------------------------------------------------------
\* ringShards.Close
\* ------------------------------------------------------------------------

\* The loop of Close over the shards in iteration order ord, where the
\* closes of the shards in failing return an error: the error kept.
RECURSIVE CloseLoopLast(_, _, _, _)
CloseLoopLast(ord, failing, i, firstErr) ==
    IF i > Len(ord) THEN firstErr
    ELSE CloseLoopLast(ord, failing, i + 1,
                       IF ord[i] \in failing THEN ord[i] ELSE firstErr)

RECURSIVE CloseLoop(_, _, _, _)
CloseLoop(ord, failing, i, firstErr) ==
    IF i > Len(ord) THEN firstErr
    ELSE CloseLoop(ord, failing, i + 1,
                   IF ord[i] \in failing /\ firstErr = NoErr THEN ord[i] ELSE firstErr)

\* The orders in which a range over the shard map may visit its entries.
Orders(S) == {o \in [1..Cardinality(S) -> S] : \A i, j \in DOMAIN o : i # j => o[i] # o[j]}

\* Close on a registry that is already closed: returns nil, touches nothing.
CloseAgain ==
    /\ closed
    /\ UNCHANGED regVars

\* The first Close: marks closed, closes every shard's client, releases the
\* ring, the map and the list.
CloseFirst ==
    /\ ~closed
    /\ closed' = TRUE
    /\ clientOpen' = [n \in Names |-> IF n \in shards THEN FALSE ELSE clientOpen[n]]
    /\ hash' = NilMap
    /\ shards' = {}
    /\ list' = <<>>
    /\ UNCHANGED <<down, hb>>

\* ------------------------------------------------------------------------
\* Construction
\* ------------------------------------------------------------------------

\* NewRing over the shard names of addrs, added in the order of seq: every
\* shard has counter 0 and is in the ring; the heartbeat waits for its tick.
NewRing(addrs, seq) ==
    /\ down = [n \in Names |-> 0]
    /\ hash = MapAddAll(New(nreplicas), addrs)
    /\ shards = addrs
    /\ list = seq
    /\ closed = FALSE
    /\ clientOpen = [n \in Names |-> TRUE]
    /\ hb = [pc |-> "wait", shards |-> <<>>, i |-> 1, rebalance |-> FALSE,
             built |-> New(nreplicas)]

InitHistory ==
    /\ streak = [n \in Names |-> 0]
    /\ lastVote = [shard |-> NilShard, err |-> NoErr, up |-> TRUE, before |-> 0, after |-> 0,
                   changed |-> FALSE]
    /\ prevHash = NilMap
    /\ lastRes = [key |-> "none", shard |-> NilShard, err |-> NoErr, closed |-> FALSE, ring |-> {}]
    /\ closeLog = <<>>
    /\ closeCount = [n \in Names |-> 0]
    /\ sweep = [changed |-> FALSE, rebuilds |-> 0]
    /\ mu = "unlocked"
    /\ acc = [who |-> "none", field |-> "none", write |-> FALSE, locked |-> FALSE,
              during |-> "unlocked"]

\* No pipeline call is made.
NoPipeline == p = [pc |-> "none"]

\* No ForEachShard call is made.
NoForEach == fe = [pc |-> "none"]

\* ------------------------------------------------------------------------
\* Spec: the heartbeat and Close, with the history of the votes and rebuilds
\* ------------------------------------------------------------------------

Init == NewRing(Names, <<"a", "b", "c">>) /\ InitHistory /\ NoPipeline /\ NoForEach

\* A tick with the history of the sweep it starts.
Ticked ==
    /\ HbTick
    /\ sweep' = IF closed THEN sweep ELSE [changed |-> FALSE, rebuilds |-> 0]
    /\ UNCHANGED <<streak, lastVote, mu, acc, prevHash, lastRes, closeLog, closeCount, p, fe>>

\* A probe step with the history of the vote it casts.
ProbeVoted(err) ==
    /\ HbProbe(err)
    /\ LET n == hb.shards[hb.i]
           v == Vote(down[n], ProbeVote(err))
       IN  /\ streak' = [streak EXCEPT ![n] = IF ProbeVote(err) THEN 0
                                              ELSE IF @ < threshold THEN @ + 1 ELSE @]
           /\ lastVote' = [shard |-> n, err |-> err, up |-> ProbeVote(err), before |-> down[n],
                           after |-> v.down, changed |-> v.changed]
    /\ sweep' = [sweep EXCEPT !.changed = @ \/ Vote(down[hb.shards[hb.i]], ProbeVote(err)).changed]
    /\ UNCHANGED <<mu, acc, prevHash, lastRes, closeLog, closeCount, p, fe>>

\* The install step with the ring it replaces.
Installed ==
    /\ HbRebalanceInstall
    /\ prevHash' = hash
    /\ sweep' = [sweep EXCEPT !.rebuilds = @ + 1]
    /\ UNCHANGED <<streak, lastVote, mu, acc, lastRes, closeLog, closeCount, p, fe>>

\* Close by some caller.
Close == (CloseFirst \/ CloseAgain) /\ UNCHANGED histVars

Next ==
    \/ Ticked
    \/ \E err \in {NoErr, ErrPoolTimeout, "ping failed", ErrClosed} : ProbeVoted(err)
    \/ HbRebalanceBuild /\ UNCHANGED histVars
    \/ Installed
    \/ Close

Spec == Init /\ [][Next]_vars

\* ------------------------------------------------------------------------
\* SpecHbLive: the heartbeat and Close, the goroutine NewRing starts for
\* Heartbeat being scheduled again and again
\* ------------------------------------------------------------------------

\* The steps of the Heartbeat goroutine: the ticker keeps ticking, every ping
\* returns, and the write lock is released by whoever holds it.
HbStep ==
    \/ Ticked
    \/ \E err \in {NoErr, ErrPoolTimeout, "ping failed", ErrClosed} : ProbeVoted(err)
    \/ HbRebalanceBuild /\ UNCHANGED histVars
    \/ Installed

NextHbLive == HbStep \/ Close

SpecHbLive == Init /\ [][NextHbLive]_vars /\ WF_vars(HbStep)

\* ------------------------------------------------------------------------
\* SpecResolve: the heartbeat, Close and the resolution calls of callers
\* ------------------------------------------------------------------------

\* A GetByKey call of some caller: records what it returned and the registry
\* state it ran against.
Resolve(key) ==
    /\ LET res == GetByKey(key)
       IN  lastRes' = [key |-> key, shard |-> res.shard, err |-> res.err,
                       closed |-> closed, ring |-> hash.names]
    /\ UNCHANGED <<regVars, streak, lastVote, sweep, mu, acc, prevHash, closeLog, closeCount, p, fe>>

\* ringShards.Random: GetByKey of the decimal string of a random integer r.
Random(r) ==
    /\ LET res == GetByKeyAt(Hash(r))
       IN  lastRes' = [key |-> "random", shard |-> res.shard, err |-> res.err,
                       closed |-> closed, ring |-> hash.names]
    /\ UNCHANGED <<regVars, streak, lastVote, sweep, mu, acc, prevHash, closeLog, closeCount, p, fe>>

\* A GetByHash("") call of some caller, r being the integer Random draws.
ResolveAny(r) ==
    /\ LET res == GetByHash(EmptyName, r)
       IN  lastRes' = [key |-> "byhash", shard |-> res.shard, err |-> res.err,
                       closed |-> closed, ring |-> hash.names]
    /\ UNCHANGED <<regVars, streak, lastVote, sweep, mu, acc, prevHash, closeLog, closeCount, p, fe>>

NextResolve ==
    \/ HbTick /\ UNCHANGED histVars
    \/ \E err \in {NoErr, ErrPoolTimeout, "ping failed", ErrClosed} :
          HbProbe(err) /\ UNCHANGED histVars
    \/ HbRebalanceBuild /\ UNCHANGED histVars
    \/ HbRebalanceInstall /\ UNCHANGED histVars
    \/ Close
    \/ \E k \in Keys : Resolve(k)
    \/ \E r \in 0..MaxRand : Random(r)
    \/ \E r \in 0..MaxRand : ResolveAny(r)

SpecResolve == Init /\ [][NextResolve]_vars

\* ------------------------------------------------------------------------
\* SpecClose: the heartbeat and the Close calls with what they return
\* ------------------------------------------------------------------------

\* The first shard of an iteration order whose close fails, if any.
FirstFailing(ord, failing) ==
    IF \A i \in DOMAIN ord : ord[i] \notin failing THEN NoErr
    ELSE ord[CHOOSE i \in DOMAIN ord :
               ord[i] \in failing /\ \A j \in 1..(i - 1) : ord[j] \notin failing]

\* A Close call with what it returned, for the iteration order ord of the
\* shard map and the set of shards whose client fails to close.
CloseCall(ord, failing) ==
    /\ Len(closeLog) < MaxCloseCalls
    /\ \/ /\ CloseAgain
          /\ closeLog' = Append(closeLog, [ret |-> NoErr, failing |-> {},
                                           firstFailing |-> NoErr])
          /\ UNCHANGED closeCount
       \/ /\ CloseFirst
          /\ closeLog' = Append(closeLog, [ret |-> CloseLoop(ord, failing, 1, NoErr),
                                           failing |-> failing,
                                           firstFailing |-> FirstFailing(ord, failing)])
          /\ closeCount' = [n \in Names |-> IF n \in shards THEN closeCount[n] + 1
                                            ELSE closeCount[n]]
    /\ UNCHANGED <<streak, lastVote, sweep, mu, acc, prevHash, lastRes, p, fe>>

NextClose ==
    \/ HbTick /\ UNCHANGED histVars
    \/ \E err \in {NoErr, ErrPoolTimeout, "ping failed", ErrClosed} :
          HbProbe(err) /\ UNCHANGED histVars
    \/ HbRebalanceBuild /\ UNCHANGED histVars
    \/ HbRebalanceInstall /\ UNCHANGED histVars
    \/ \E ord \in Orders(shards), failing \in SUBSET shards : CloseCall(ord, failing)

SpecClose == Init /\ [][NextClose]_vars

\* ------------------------------------------------------------------------
\* SpecLock: the registry lock (ringShards.mu) around every access, with the
\* heartbeat, Close and resolutions running beside each other
\* ------------------------------------------------------------------------

\* History: the access a step made to a field of the registry, with or
\* without the lock, and who held the write lock at that moment.
Access(who, field, write, locked) ==
    [who |-> who, field |-> field, write |-> write, locked |-> locked, during |-> mu]

\* The tick: closed and list are read under the read lock.
LkTick ==
    /\ mu = "unlocked"
    /\ HbTick
    /\ acc' = Access("heartbeat", "list", FALSE, TRUE)
    /\ UNCHANGED <<streak, lastVote, sweep, mu, prevHash, lastRes, closeLog, closeCount, p, fe>>

\* The ping and the vote: the counter of the shard is written, no lock taken.
LkProbe(err) ==
    /\ HbProbe(err)
    /\ acc' = Access("heartbeat", "down", TRUE, FALSE)
    /\ UNCHANGED <<streak, lastVote, sweep, mu, prevHash, lastRes, closeLog, closeCount, p, fe>>

\* rebalance ranges over c.shards before it takes the lock.
LkBuild ==
    /\ HbRebalanceBuild
    /\ acc' = Access("rebalance", "shards", FALSE, FALSE)
    /\ UNCHANGED <<streak, lastVote, sweep, mu, prevHash, lastRes, closeLog, closeCount, p, fe>>

\* c.mu.Lock(); c.hash = hash; c.mu.Unlock().
LkInstall ==
    /\ mu = "unlocked"
    /\ HbRebalanceInstall
    /\ acc' = Access("rebalance", "hash", TRUE, TRUE)
    /\ UNCHANGED <<streak, lastVote, sweep, mu, prevHash, lastRes, closeLog, closeCount, p, fe>>

\* Close takes the write lock.
LkCloseLock ==
    /\ mu = "unlocked"
    /\ mu' = "close"
    /\ UNCHANGED <<regVars, streak, lastVote, sweep, acc, prevHash, lastRes, closeLog, closeCount, p, fe>>

\* The body of Close with the lock held: the closed check, and on the first
\* Close the writes of closed, hash, shards and list.
LkCloseBody ==
    /\ mu = "close"
    /\ \/ CloseFirst /\ acc' = Access("close", "shards", TRUE, TRUE)
       \/ CloseAgain /\ acc' = Access("close", "closed", FALSE, TRUE)
    /\ mu' = "closing"
    /\ UNCHANGED <<streak, lastVote, sweep, prevHash, lastRes, closeLog, closeCount, p, fe>>

\* The deferred c.mu.Unlock() of Close.
LkCloseUnlock ==
    /\ mu = "closing"
    /\ mu' = "unlocked"
    /\ UNCHANGED <<regVars, streak, lastVote, sweep, acc, prevHash, lastRes, closeLog, closeCount, p, fe>>

\* GetByKey: closed, hash and shards are read under the read lock.
LkGetByKey(key) ==
    /\ mu = "unlocked"
    /\ LET res == GetByKey(key)
       IN  lastRes' = [key |-> key, shard |-> res.shard, err |-> res.err,
                       closed |-> closed, ring |-> hash.names]
    /\ acc' = Access("GetByKey", "hash", FALSE, TRUE)
    /\ UNCHANGED <<regVars, streak, lastVote, sweep, mu, prevHash, closeLog, closeCount, p, fe>>

\* GetByHash of a shard name: c.shards[name] is read under the read lock.
LkGetByHash(name) ==
    /\ mu = "unlocked"
    /\ LET res == GetByHash(name, 0)
       IN  lastRes' = [key |-> "byhash", shard |-> res.shard, err |-> res.err,
                       closed |-> closed, ring |-> hash.names]
    /\ acc' = Access("GetByHash", "shards", FALSE, TRUE)
    /\ UNCHANGED <<regVars, streak, lastVote, sweep, mu, prevHash, closeLog, closeCount, p, fe>>

InitLock == NewRing({"a", "b"}, <<"a", "b">>) /\ InitHistory /\ NoPipeline /\ NoForEach

NextLock ==
    \/ LkTick
    \/ \E err \in {NoErr, "ping failed"} : LkProbe(err)
    \/ LkBuild
    \/ LkInstall
    \/ LkCloseLock
    \/ LkCloseBody
    \/ LkCloseUnlock
    \/ \E k \in {"k1", "k2"} : LkGetByKey(k)
    \/ \E n \in {"a", "b"} : LkGetByHash(n)

SpecLock == InitLock /\ [][NextLock]_vars

\* ------------------------------------------------------------------------
\* Errors of a dispatch and their classification (internal/error.go)
\* ------------------------------------------------------------------------

\* Error replies of the backend (proto.RedisError).
RedisErrors == {"ERR wrong type", "LOADING dataset", "CLUSTERDOWN slot",
                "ERR max number of clients reached"}

\* Transport errors (io.EOF, net.Error).
NetErrors == {"EOF", "net: i/o timeout"}

\* An error that is neither a reply nor a transport error.
ProtoError == "proto: invalid reply"

\* strings.HasPrefix on the error texts of the model.
HasPrefix(e, pre) ==
    \/ e = "LOADING dataset" /\ pre = "LOADING "
    \/ e = "CLUSTERDOWN slot" /\ pre = "CLUSTERDOWN "

IsNetworkError(err) == err \in NetErrors

IsRedisError(err) == err \in RedisErrors

IsRetryableError(err, retryNetError) ==
    IF IsNetworkError(err) THEN retryNetError
    ELSE \/ err = "ERR max number of clients reached"
         \/ HasPrefix(err, "LOADING ")
         \/ HasPrefix(err, "CLUSTERDOWN ")

\* ------------------------------------------------------------------------
\* Ring.defaultProcessPipeline
\* ------------------------------------------------------------------------

\* The keys of cmdsMap: a shard name, or "" for the operations without key.
Groups == Names \cup {EmptyName}

\* What a faulting call (a nil dereference) yields in place of a value.
Fault == "panic: nil pointer dereference"

\* ringShards.Hash(key): Map.Get on the current ring under the read lock,
\* with no closed check; the released ring is a nil pointer.
RingHash(key) == IF hash.nil THEN Fault ELSE MapGet(hash, key)

\* setCmdsErr(cmds, e) on the result errors errs of the batch, cs being the
\* batch positions of cmds.
setCmdsErr(errs, cs, e) ==
    [k \in DOMAIN errs |-> IF \E x \in DOMAIN cs : cs[x] = k THEN e ELSE errs[k]]

\* firstCmdsErr(cmds): the error of the first operation that carries one.
firstCmdsErr(errs) ==
    IF \A k \in DOMAIN errs : errs[k] = NoErr THEN NoErr
    ELSE errs[CHOOSE k \in DOMAIN errs :
                errs[k] # NoErr /\ \A m \in 1..(k - 1) : errs[m] = NoErr]

\* Client.pipelineProcessCmds on the sub-batch cs: what it returns and the
\* result errors it leaves, for each way the exchange can go.
\*   "ok":    every reply read.
\*   "reply": the backend answers operation j with the error reply e.
\*   "net":   the transport fails with e, on the write (j = 0) or while
\*            reading the reply of operation j, whose successors fail too.
pipelineProcessCmds(errs, cs, kind, j, e) ==
    CASE kind = "ok" ->
           [canRetry |-> FALSE, err |-> NoErr, errs |-> setCmdsErr(errs, cs, NoErr)]
      [] kind = "reply" ->
           [canRetry |-> j = 1, err |-> e,
            errs |-> [k \in DOMAIN errs |->
                        IF \E x \in DOMAIN cs : cs[x] = k
                        THEN (IF cs[j] = k THEN e ELSE NoErr)
                        ELSE errs[k]]]
      [] kind = "net" ->
           [canRetry |-> j <= 1, err |-> e,
            errs |-> [k \in DOMAIN errs |->
                        IF \E x \in DOMAIN cs : cs[x] = k
                        THEN (IF \E x \in DOMAIN cs : cs[x] = k /\ x >= j THEN e ELSE NoErr)
                        ELSE errs[k]]]

\* The ways an exchange on a sub-batch of n operations can go.
Exchanges(n) ==
    {[kind |-> "ok", j |-> 0, e |-> NoErr]}
    \cup {[kind |-> "reply", j |-> j, e |-> e] : j \in 1..n, e \in {"ERR wrong type", "LOADING dataset"}}
    \cup {[kind |-> "net", j |-> j, e |-> "net: i/o timeout"] : j \in 0..n}
    \cup {[kind |-> "net", j |-> 1, e |-> ProtoError]}

\* History entries: no outcome yet, and a sub-batch that got the error e
\* without an exchange.
NoOutcome == [kind |-> "none", j |-> 0, e |-> NoErr]
Refused(e) == [kind |-> "refused", j |-> 0, e |-> e]

\* The call starts on the batch cmds (the routing key of each operation, ""
\* for none).
StartPipeline(cmds) ==
    [pc |-> "partition", cmds |-> cmds, i |-> 1,
     cmdsMap |-> [g \in Groups |-> <<>>], todo |-> {}, failed |-> {},
     attempt |-> 0, cur |-> [g |-> EmptyName, shard |-> NilShard],
     errs |-> [k \in DOMAIN cmds |-> NoErr], ret |-> NoErr,
     \* history
     disp |-> [k \in DOMAIN cmds |-> 0],
     out |-> [a \in 0..MaxRetries |-> [g \in Groups |-> NoOutcome]],
     part |-> [g \in Groups |-> <<>>],
     rep |-> [k \in DOMAIN cmds |-> [n |-> 0, e |-> NoErr]],
     last |-> [kind |-> "none", put |-> FALSE, retry |-> FALSE],
     got |-> 0, put |-> 0, removed |-> 0,
     steps |-> 0, closedFirst |-> FALSE, sawClosed |-> FALSE, inRing |-> TRUE,
     emptyAll |-> TRUE, downAll |-> TRUE]

\* History: what the registry looked like at each step of the call.
Observe(q) ==
    [q EXCEPT !.steps = IF @ = 0 THEN 1 ELSE @,
              !.closedFirst = IF q.steps = 0 THEN closed ELSE @,
              !.sawClosed = @ \/ closed,
              !.emptyAll = @ /\ ~closed /\ ~hash.nil /\ hash.names = {},
              !.downAll = @ /\ ~closed /\ \A n \in shards : IsDown(down[n])]

\* cmdsMap[hash] = append(cmdsMap[hash], cmd), the operation being the one
\* at position i of the batch.
prependCmd(m, h, i) == [m EXCEPT ![h] = <<i>> \o @]

appendCmd(m, h, i) == [m EXCEPT ![h] = Append(@, i)]

\* The first loop: one operation is put into the sub-batch of the shard its
\* key hashes to in the current ring.
PipePartition ==
    /\ p.pc = "partition"
    /\ LET key  == p.cmds[p.i]
           h    == IF key # EmptyName THEN RingHash(hashtagKey(key)) ELSE EmptyName
           last == p.i = Len(p.cmds)
           m    == appendCmd(p.cmdsMap, h, p.i)
       IN  p' = IF h = Fault
                THEN [Observe(p) EXCEPT !.pc = "panic"]
                ELSE [Observe(p) EXCEPT
                        !.cmdsMap = m,
                        !.part = IF last THEN m ELSE @,
                        !.i = @ + 1,
                        !.pc = IF last THEN "resolve" ELSE "partition",
                        !.todo = IF last THEN {g \in Groups : m[g] # <<>>} ELSE {}]
    /\ UNCHANGED <<regVars, regHist>>

\* The end of one iteration of the range over cmdsMap: the next sub-batch,
\* or the end of the attempt, which ends the call when nothing is left to
\* retry or the attempts are used up, and otherwise makes failedCmdsMap the
\* map of the next attempt.
AdvanceLastMap(q) ==
    IF q.todo # {} THEN [q EXCEPT !.pc = "resolve"]
    ELSE IF q.failed = {} \/ q.attempt = MaxRetries
    THEN [q EXCEPT !.pc = "done",
                   !.ret = firstCmdsErr([k \in DOMAIN q.errs |->
                              IF \E g \in Groups : \E x \in DOMAIN q.cmdsMap[g] :
                                    q.cmdsMap[g][x] = k
                              THEN q.errs[k] ELSE NoErr])]
    ELSE [q EXCEPT !.pc = "resolve", !.attempt = @ + 1,
                   !.cmdsMap = [g \in Groups |-> IF g \in q.failed THEN q.cmdsMap[g] ELSE <<>>],
                   !.todo = q.failed, !.failed = {}]

AdvanceOneMore(q) ==
    IF q.todo # {} THEN [q EXCEPT !.pc = "resolve"]
    ELSE IF q.failed = {} \/ q.attempt = MaxRetries + 1
    THEN [q EXCEPT !.pc = "done", !.ret = firstCmdsErr(q.errs)]
    ELSE [q EXCEPT !.pc = "resolve", !.attempt = @ + 1,
                   !.cmdsMap = [g \in Groups |-> IF g \in q.failed THEN q.cmdsMap[g] ELSE <<>>],
                   !.todo = q.failed, !.failed = {}]

AdvanceAll(q) ==
    IF q.todo # {} THEN [q EXCEPT !.pc = "resolve"]
    ELSE IF q.attempt = MaxRetries
    THEN [q EXCEPT !.pc = "done", !.ret = firstCmdsErr(q.errs)]
    ELSE [q EXCEPT !.pc = "resolve", !.attempt = @ + 1,
                   !.todo = {g \in Groups : q.cmdsMap[g] # <<>>}, !.failed = {}]

Advance(q) ==
    IF q.todo # {} THEN [q EXCEPT !.pc = "resolve"]
    ELSE IF q.failed = {} \/ q.attempt = MaxRetries
    THEN [q EXCEPT !.pc = "done", !.ret = firstCmdsErr(q.errs)]
    ELSE [q EXCEPT !.pc = "resolve", !.attempt = @ + 1,
                   !.cmdsMap = [g \in Groups |-> IF g \in q.failed THEN q.cmdsMap[g] ELSE <<>>],
                   !.todo = q.failed, !.failed = {}]

\* One iteration of the range over cmdsMap, up to GetByHash: an error goes
\* to the operations of the sub-batch; a nil shard faults at shard.Client.
PipeResolve(g, r) ==
    /\ p.pc = "resolve"
    /\ g \in p.todo
    /\ LET res == GetByHash(g, r)
           q   == Observe(p)
       IN  p' = IF res.err # NoErr
                THEN Advance([q EXCEPT !.errs = setCmdsErr(@, p.cmdsMap[g], res.err),
                                       !.todo = @ \ {g},
                                       !.out[p.attempt][g] = Refused(res.err)])
                ELSE IF res.shard = NilShard
                THEN [q EXCEPT !.pc = "panic"]
                ELSE [q EXCEPT !.pc = "exec", !.cur = [g |-> g, shard |-> res.shard],
                               !.inRing = ~hash.nil /\ res.shard \in hash.names]
    /\ UNCHANGED <<regVars, regHist>>

\* What the dispatch of a sub-batch does with a result of pipelineProcessCmds:
\* whether the connection goes back to the pool and whether the sub-batch
\* enters failedCmdsMap.
ClassifyNoReplyCheck(canRetry, err) ==
    [put |-> err = NoErr,
     retry |-> err # NoErr /\ canRetry /\ IsRetryableError(err, TRUE)]

Classify(canRetry, err) ==
    [put |-> err = NoErr \/ IsRedisError(err),
     retry |-> ~(err = NoErr \/ IsRedisError(err)) /\ canRetry /\ IsRetryableError(err, TRUE)]

\* The rest of the iteration, getConn failing with e: the error goes to the
\* operations of the sub-batch.
PipeConnFail(e) ==
    /\ p.pc = "exec"
    /\ IF clientOpen[p.cur.shard] THEN e \in {ErrPoolTimeout, "dial: connection refused"}
       ELSE e = ErrClosed
    /\ p' = Advance([Observe(p) EXCEPT
                       !.errs = setCmdsErr(@, p.cmdsMap[p.cur.g], e),
                       !.todo = @ \ {p.cur.g},
                       !.out[p.attempt][p.cur.g] = Refused(e),
                       !.cur = [g |-> EmptyName, shard |-> NilShard],
                       !.inRing = TRUE])
    /\ UNCHANGED <<regVars, regHist>>

\* The rest of the iteration, getConn succeeding: the exchange x, then the
\* connection is put back or removed and the sub-batch kept for a retry or
\* not.
PipeExec(x) ==
    /\ p.pc = "exec"
    /\ clientOpen[p.cur.shard]
    /\ LET g  == p.cur.g
           cs == p.cmdsMap[g]
       IN  /\ x \in Exchanges(Len(cs))
           /\ LET r == pipelineProcessCmds(p.errs, cs, x.kind, x.j, x.e)
                  c == Classify(r.canRetry, r.err)
              IN  p' = Advance([Observe(p) EXCEPT
                                  !.errs = r.errs,
                                  !.todo = @ \ {g},
                                  !.failed = IF c.retry THEN @ \cup {g} ELSE @,
                                  !.disp = [k \in DOMAIN @ |->
                                              IF \E y \in DOMAIN cs : cs[y] = k
                                              THEN @[k] + 1 ELSE @[k]],
                                  !.out[p.attempt][g] = x,
                                  !.rep = [k \in DOMAIN @ |->
                                             IF x.kind = "reply" /\ \E y \in DOMAIN cs : cs[y] = k
                                             THEN [n |-> p.disp[k] + 1, e |-> r.errs[k]]
                                             ELSE @[k]],
                                  !.last = [kind |-> x.kind, put |-> c.put, retry |-> c.retry],
                                  !.got = @ + 1,
                                  !.put = IF c.put THEN @ + 1 ELSE @,
                                  !.removed = IF c.put THEN @ ELSE @ + 1,
                                  !.cur = [g |-> EmptyName, shard |-> NilShard],
                                  !.inRing = TRUE])
    /\ UNCHANGED <<regVars, regHist>>

\* ------------------------------------------------------------------------
\* SpecPipe: one pipeline call on a ring of three shards, with Close running
\* beside it
\* ------------------------------------------------------------------------

\* The batches a call is made with: one operation per shard, two operations
\* on one shard, and a keyed operation with a keyless one.
Batches == {<<"k1", "k2", "k3">>, <<"k1", "k4">>, <<"k2", "">>}

InitPipe ==
    /\ NewRing(Names, <<"a", "b", "c">>)
    /\ InitHistory
    /\ NoForEach
    /\ \E cmds \in Batches : p = StartPipeline(cmds)

AllExchanges == UNION {Exchanges(n) : n \in 1..2}

NextPipe ==
    \/ Close
    \/ PipePartition
    \/ \E g \in Groups, r \in 0..MaxRand : PipeResolve(g, r)
    \/ \E e \in {ErrPoolTimeout, "dial: connection refused", ErrClosed} : PipeConnFail(e)
    \/ \E x \in AllExchanges : PipeExec(x)

SpecPipe == InitPipe /\ [][NextPipe]_vars

\* ------------------------------------------------------------------------
\* SpecPipeLive: the pipeline call with Close beside it, the goroutine of the
\* call being scheduled again and again
\* ------------------------------------------------------------------------

\* The exchanges: one that goes well, a timeout before the write, an error
\* of no class on the first reply, and a LOADING reply to the first
\* operation.
LiveExchanges ==
    {[kind |-> "ok", j |-> 0, e |-> NoErr],
     [kind |-> "net", j |-> 0, e |-> "net: i/o timeout"],
     [kind |-> "net", j |-> 1, e |-> ProtoError],
     [kind |-> "reply", j |-> 1, e |-> "LOADING dataset"]}

\* The steps of the goroutine that runs the call; every network exchange
\* returns (the timeouts bound it).
PipeStep ==
    \/ PipePartition
    \/ \E g \in Groups, r \in 0..MaxRand : PipeResolve(g, r)
    \/ \E e \in {ErrPoolTimeout, ErrClosed} : PipeConnFail(e)
    \/ \E x \in LiveExchanges : PipeExec(x)

NextPipeLive == Close \/ PipeStep

SpecPipeLive == InitPipe /\ [][NextPipeLive]_vars /\ WF_vars(PipeStep)

\* ------------------------------------------------------------------------
\* SpecDown: one pipeline call on a ring of two shards, with the heartbeat
\* and Close running beside it
\* ------------------------------------------------------------------------

DownBatches == {<<"k1", "k3">>, <<"k2", "">>}

InitDown ==
    /\ NewRing({"a", "b"}, <<"a", "b">>)
    /\ InitHistory
    /\ NoForEach
    /\ \E cmds \in DownBatches : p = StartPipeline(cmds)

DownExchanges ==
    {[kind |-> "ok", j |-> 0, e |-> NoErr],
     [kind |-> "net", j |-> 0, e |-> "net: i/o timeout"]}

NextDown ==
    \/ HbTick /\ UNCHANGED histVars
    \/ \E err \in {NoErr, "ping failed", ErrClosed} :
          HbProbe(err) /\ UNCHANGED histVars
    \/ HbRebalanceBuild /\ UNCHANGED histVars
    \/ HbRebalanceInstall /\ UNCHANGED histVars
    \/ Close
    \/ PipePartition
    \/ \E g \in Groups, r \in 0..MaxRand : PipeResolve(g, r)
    \/ \E e \in {ErrPoolTimeout, ErrClosed} : PipeConnFail(e)
    \/ \E x \in DownExchanges : PipeExec(x)

SpecDown == InitDown /\ [][NextDown]_vars

\* ------------------------------------------------------------------------
\* Ring.ForEachShard
\* ------------------------------------------------------------------------

\* The error fn returns on the client of shard n when it fails.
FnErr(n) == CASE n = "a" -> "fn failed on a"
              [] n = "b" -> "fn failed on b"
              [] n = "c" -> "fn failed on c"

\* The call before its first step.
StartForEach ==
    [pc |-> "list", snap |-> <<>>, i |-> 1, running |-> {}, errCh |-> <<>>,
     ret |-> NoErr,
     \* history
     wasDown |-> [n \in Names |-> FALSE],
     starts |-> [n \in Names |-> 0],
     res |-> [n \in Names |-> "none"],
     lastDone |-> NilShard]

\* shards := c.shards.List(): the snapshot the loop ranges over.
FeList ==
    /\ fe.pc = "list"
    /\ fe' = [fe EXCEPT !.pc = "scan", !.snap = list]
    /\ UNCHANGED <<regVars, streak, lastVote, sweep, mu, acc, prevHash, lastRes, closeLog, closeCount, p>>

\* One iteration of the loop: a down shard is skipped, for any other the
\* wait group is incremented and a goroutine started.
FeScan ==
    /\ fe.pc = "scan"
    /\ IF fe.i > Len(fe.snap)
       THEN fe' = [fe EXCEPT !.pc = "wait"]
       ELSE LET n == fe.snap[fe.i]
            IN  fe' = [fe EXCEPT
                         !.i = @ + 1,
                         !.wasDown[n] = IsDown(down[n]),
                         !.running = IF IsDown(down[n]) THEN @ ELSE @ \cup {n},
                         !.starts[n] = IF IsDown(down[n]) THEN @ ELSE @ + 1]
    /\ UNCHANGED <<regVars, streak, lastVote, sweep, mu, acc, prevHash, lastRes, closeLog, closeCount, p>>

\* The non-blocking send on the error channel of capacity 1.
Send(ch, err) == IF Len(ch) < 1 THEN Append(ch, err) ELSE ch

\* A goroutine: fn returns err on the shard's client, an error is offered
\* to the channel, and wg.Done runs.
FeTask(n, err) ==
    /\ n \in fe.running
    /\ err \in {NoErr, FnErr(n)}
    /\ fe' = [fe EXCEPT
                !.running = @ \ {n},
                !.errCh = IF err # NoErr THEN Send(@, err) ELSE @,
                !.res[n] = err,
                !.lastDone = n]
    /\ UNCHANGED <<regVars, streak, lastVote, sweep, mu, acc, prevHash, lastRes, closeLog, closeCount, p>>

\* wg.Wait(): returns once every started goroutine has called Done.
WaitNone(running) == TRUE

Wait(running) == running = {}

\* After the wait, the error in the channel, or nil.
FeReturn ==
    /\ fe.pc = "wait"
    /\ Wait(fe.running)
    /\ fe' = [fe EXCEPT !.pc = "done",
                        !.ret = IF Len(fe.errCh) > 0 THEN Head(fe.errCh) ELSE NoErr]
    /\ UNCHANGED <<regVars, streak, lastVote, sweep, mu, acc, prevHash, lastRes, closeLog, closeCount, p>>

\* ------------------------------------------------------------------------
\* SpecFan: one ForEachShard call on a ring of three shards, with the
\* heartbeat and Close running beside it
\* ------------------------------------------------------------------------

InitFan ==
    /\ NewRing(Names, <<"a", "b", "c">>)
    /\ InitHistory
    /\ NoPipeline
    /\ fe = StartForEach

NextFan ==
    \/ HbTick /\ UNCHANGED histVars
    \/ \E err \in {NoErr, "ping failed", ErrClosed} :
          HbProbe(err) /\ UNCHANGED histVars
    \/ HbRebalanceBuild /\ UNCHANGED histVars
    \/ HbRebalanceInstall /\ UNCHANGED histVars
    \/ Close
    \/ FeList
    \/ FeScan
    \/ \E n \in Names : \E err \in {NoErr, FnErr(n)} : FeTask(n, err)
    \/ FeReturn

SpecFan == InitFan /\ [][NextFan]_vars

\* ------------------------------------------------------------------------
\* Claims on the shard handle, the heartbeat and the registry
\* ------------------------------------------------------------------------

\* C1: a shard that has received 3 consecutive down votes is down and is not
\* in the ring a rebuild produces, and a shard whose last vote was up is up
\* and is in it: the ring rebalance builds, and the ring in place once the
\* sweep that cast the vote is over, leave out every registered shard with a
\* streak of 3 down votes and hold every registered shard voted up last.
C1_Hysteresis ==
    /\ \A n \in Names :
          /\ streak[n] >= 3 => IsDown(down[n])
          /\ streak[n] = 0 => IsUp(down[n])
    /\ hb.pc = "install" =>
          \A n \in shards :
             /\ streak[n] >= 3 => n \notin hb.built.names
             /\ streak[n] = 0 => n \in hb.built.names
    /\ (hb.pc = "wait" /\ ~closed) =>
          \A n \in shards :
             /\ streak[n] >= 3 => n \notin hash.names
             /\ streak[n] = 0 => n \in hash.names

\* C1 witness: shard c was down and out of the ring, a single up vote
\* restored it, and the rebuild of that sweep holds it again.
C1_Witness ==
    /\ hb.pc = "wait" /\ ~closed
    /\ lastVote.shard = "c" /\ lastVote.up /\ lastVote.changed
    /\ lastVote.before = 3
    /\ "c" \in hash.names /\ "c" \notin prevHash.names /\ ~prevHash.nil

\* C2: Vote reports exactly a change of the down status; an up vote resets
\* the counter to 0 and reports whether the shard was down; a down vote on a
\* down shard changes nothing and reports false; a down vote on an up shard
\* adds 1 and reports whether the counter reached 3.
C2_VoteContract ==
    lastVote.shard # NilShard =>
       /\ lastVote.changed <=> ((lastVote.before >= 3) # (lastVote.after >= 3))
       /\ lastVote.up =>
             /\ lastVote.after = 0
             /\ lastVote.changed <=> (lastVote.before >= 3)
       /\ (~lastVote.up /\ lastVote.before >= 3) =>
             /\ lastVote.after = lastVote.before
             /\ ~lastVote.changed
       /\ (~lastVote.up /\ lastVote.before < 3) =>
             /\ lastVote.after = lastVote.before + 1
             /\ lastVote.changed <=> (lastVote.after = 3)

\* C2 witness: a down vote cast on a shard that is already down.
C2_Witness ==
    /\ lastVote.shard # NilShard
    /\ ~lastVote.up
    /\ lastVote.before = 3

\* C4: a GetByKey or Random call made once the registry is closed returns
\* no shard and the closed error, whatever the ring holds, also when the ring
\* is empty.
C4_ClosedResolve ==
    (lastRes.key # "none" /\ lastRes.closed) =>
       /\ lastRes.err = ErrClosed
       /\ lastRes.shard = NilShard

\* C4 witness: a call after Close that met a ring without members.
C4_Witness ==
    /\ lastRes.key = "k1"
    /\ lastRes.closed
    /\ lastRes.ring = {}
    /\ lastRes.err = ErrClosed

\* C6: the first Close marks the registry closed, closes every shard's
\* client once and returns the error of the first close that failed; every
\* later Close returns nil and closes nothing again.
C6_CloseIdempotent ==
    /\ closed <=> Len(closeLog) >= 1
    /\ \A n \in Names : closeCount[n] = (IF closed THEN 1 ELSE 0)
    /\ \A i \in DOMAIN closeLog :
          IF i = 1
          THEN closeLog[i].ret = closeLog[i].firstFailing
          ELSE closeLog[i].ret = NoErr

\* C6 witness: a first Close in which two clients failed to close and the
\* one visited first was not the one visited last, followed by a second Close.
C6_Witness ==
    /\ Len(closeLog) = 2
    /\ closeLog[1].failing = {"a", "b"}
    /\ closeLog[1].ret = "b"
    /\ closeLog[2].ret = NoErr

\* C9: when a rebuild only removes shards from the ring, every hash position
\* whose owner before the rebuild is still in the ring keeps that owner.
C9_BoundedRemap ==
    (~hash.nil /\ ~prevHash.nil /\ hash.names \subseteq prevHash.names) =>
       \A h \in 0..(HashSpace - 1) :
          GetAt(prevHash, h) \in hash.names => GetAt(hash, h) = GetAt(prevHash, h)

\* C9 witness: the rebuild removed shard c from the ring of three, and a
\* position c owned now belongs to another shard.
C9_Witness ==
    /\ ~closed
    /\ prevHash.names = Names
    /\ hash.names = {"a", "b"}
    /\ \E h \in 0..(HashSpace - 1) : GetAt(prevHash, h) = "c" /\ GetAt(hash, h) \in {"a", "b"}

\* ------------------------------------------------------------------------
\* Claims on the pipeline call
\* ------------------------------------------------------------------------

\* The operations of the batch.
Ops == DOMAIN p.cmds

\* C3 (as amended): while the registry is open and the ring in place has no
\* member, GetByKey returns the all-shards-down error and no shard for any
\* key, and a pipeline call that ran wholly under such a ring leaves every
\* operation carrying that error, dispatched none of them and returns that
\* error.
C3_EmptyRing ==
    /\ (~closed /\ ~hash.nil /\ hash.names = {}) =>
          \A key \in Keys :
             GetByKey(key) = [shard |-> NilShard, err |-> errRingShardsDown]
    /\ (p.pc = "done" /\ p.emptyAll) =>
          /\ \A k \in Ops : p.errs[k] = errRingShardsDown /\ p.disp[k] = 0
          /\ p.got = 0
          /\ p.ret = errRingShardsDown

\* C3 witness: a call on two operations ran to its end under an empty ring.
C3_Witness ==
    /\ p.pc = "done" /\ p.emptyAll /\ p.steps > 0
    /\ p.cmds = <<"k1", "k3">>
    /\ p.ret = errRingShardsDown

\* C3 as stated: whenever every shard is down, GetByKey returns the
\* all-shards-down error, and a pipeline call that ran wholly while every
\* shard was down leaves every operation carrying it and dispatched none.
C3_AllDown ==
    /\ (~closed /\ \A n \in shards : IsDown(down[n])) =>
          \A key \in Keys : GetByKey(key).err = errRingShardsDown
    /\ (p.pc = "done" /\ p.downAll) =>
          \A k \in Ops : p.errs[k] = errRingShardsDown /\ p.disp[k] = 0

\* C5 as stated: a pipeline call never faults, and a call that began after
\* Close ends with every operation carrying the closed error and none
\* dispatched; so does the sub-batch a call dispatches after Close.
C5_ClosedExecute ==
    /\ p.pc # "panic"
    /\ (p.pc = "done" /\ p.closedFirst) =>
          \A k \in Ops : p.errs[k] = ErrClosed /\ p.disp[k] = 0

\* The scenario of C7: the call on one operation per shard is over, no Close
\* ran beside it, in the first attempt the exchange of shard x failed with a
\* timeout before anything was written and the other two exchanges went
\* well, and nothing failed in a later attempt.
C7_Scenario(x) ==
    /\ p.pc = "done" /\ ~p.sawClosed
    /\ p.cmds = <<"k1", "k2", "k3">>
    /\ p.out[0][x] = [kind |-> "net", j |-> 0, e |-> "net: i/o timeout"]
    /\ \A g \in Names \ {x} : p.out[0][g].kind = "ok"
    /\ \A a \in 1..MaxRetries, g \in Groups : p.out[a][g].kind \in {"none", "ok"}

\* C7: in that scenario the operations of the two healthy shards were
\* dispatched once, the operation of the failing shard was dispatched twice
\* and went well in the second attempt, no operation carries an error and
\* the call returns nil.
C7_RetryOneShard ==
    \A x \in Names :
       C7_Scenario(x) =>
          /\ p.out[1][x].kind = "ok"
          /\ \A g \in Groups \ {x} : p.out[1][g].kind = "none"
          /\ \A a \in 2..MaxRetries, g \in Groups : p.out[a][g].kind = "none"
          /\ p.got = 4 /\ p.put = 3 /\ p.removed = 1
          /\ \E k \in Ops :
                /\ p.cmdsMap[x] = <<k>>
                /\ p.disp[k] = 2
                /\ \A m \in Ops \ {k} : p.disp[m] = 1
          /\ \A k \in Ops : p.errs[k] = NoErr
          /\ p.ret = NoErr

\* C7 witness: the scenario with shard b failing first.
C7_Witness ==
    /\ C7_Scenario("b")
    /\ p.disp = <<1, 2, 1>>
    /\ p.ret = NoErr

\* C10: an exchange the backend answered with an error reply puts the
\* connection back into the pool and does not enter the sub-batch for a
\* retry; from then on its operations keep the results of that exchange and
\* are not dispatched again.
C10_ReplyNotRetried ==
    /\ p.last.kind = "reply" => p.last.put /\ ~p.last.retry
    /\ \A k \in Ops :
          p.rep[k].n > 0 => p.disp[k] = p.rep[k].n /\ p.errs[k] = p.rep[k].e

\* C10 witness: shard a answered LOADING to its first operation, another
\* sub-batch was retried, and the call is over after its second attempt.
C10_Witness ==
    /\ p.pc = "done" /\ p.attempt = 1
    /\ p.cmds = <<"k1", "k2", "k3">>
    /\ p.rep[1] = [n |-> 1, e |-> "LOADING dataset"]
    /\ p.disp[1] = 1
    /\ p.errs[1] = "LOADING dataset"

\* ------------------------------------------------------------------------
\* Claims on ForEachShard
\* ------------------------------------------------------------------------

\* The shards the loop of the call has inspected so far.
Inspected == {fe.snap[i] : i \in 1..(fe.i - 1)}

\* The shards whose task has returned an error.
Failed == {n \in Names : fe.res[n] \notin {"none", NoErr}}

\* C8: the call starts exactly one task for every shard that was up when the
\* loop inspected it and none for a shard that was down; it returns only
\* once every task it started has finished; it returns nil when no task
\* failed, the error of the task that failed when exactly one did, and one
\* of the tasks' errors when several did.
C8_ForEachShard ==
    /\ \A n \in Names :
          fe.starts[n] = (IF n \in Inspected /\ ~fe.wasDown[n] THEN 1 ELSE 0)
    /\ fe.pc = "done" =>
          /\ fe.running = {}
          /\ \A n \in Names : fe.starts[n] = 1 => fe.res[n] # "none"
          /\ Failed = {} => fe.ret = NoErr
          /\ \A n \in Names : Failed = {n} => fe.ret = FnErr(n)
          /\ Failed # {} => fe.ret \in {fe.res[n] : n \in Failed}

\* C8 witness: three tasks were started, only the one of shard b failed, it
\* was not the last to finish, and the call returned its error.
C8_Witness ==
    /\ fe.pc = "done"
    /\ \A n \in Names : fe.starts[n] = 1
    /\ Failed = {"b"}
    /\ fe.lastDone = "a"
    /\ fe.ret = FnErr("b")

\* C16: a sub-batch that is dispatched on a retry attempt goes to a shard
\* that was a member of the ring when the attempt resolved it.
C16_RetryOnRing ==
    (p.pc = "exec" /\ p.attempt >= 1) => p.inRing

\* ------------------------------------------------------------------------
\* Further claims on the heartbeat
\* ------------------------------------------------------------------------

\* C15: while the shards of a sweep are probed the ring is not rebuilt; a
\* sweep in which a vote changed a status goes on to rebuild the ring, and
\* once the sweep is over the ring has been rebuilt once if a vote of the
\* sweep changed a status and not at all otherwise.
C15_OneRebuild ==
    /\ hb.pc = "probe" => sweep.rebuilds = 0
    /\ hb.pc \in {"rebalance", "install"} => sweep.changed /\ sweep.rebuilds = 0
    /\ hb.pc \in {"wait", "done"} => sweep.rebuilds = (IF sweep.changed THEN 1 ELSE 0)

\* C15 witness: the three shards went down in one sweep, and the one rebuild
\* of that sweep took the ring from all of them to none.
C15_Witness ==
    /\ hb.pc = "wait" /\ ~closed
    /\ sweep.changed /\ sweep.rebuilds = 1
    /\ prevHash.names = Names /\ ~prevHash.nil
    /\ hash.names = {}

\* C17: once the registry is closed, the ring, the shard map and the shard
\* list have the values Close gave them (no ring, no shards), whatever the
\* heartbeat was doing when Close ran.
C17_ClosedFrozen ==
    closed => hash = NilMap /\ shards = {} /\ list = <<>>

\* C18: every access to the ring, the shard map, the shard list and the
\* closed flag is made with the registry lock held, the counter of a shard
\* being the only field accessed without it; and the health monitor never
\* reads the shard map while Close holds the write lock.
C18_AllLocked ==
    /\ acc.field \in {"hash", "shards", "list", "closed"} => acc.locked
    /\ (acc.who \in {"heartbeat", "rebalance"} /\ acc.field = "shards")
          => acc.during = "unlocked"

\* C19: the current ring changes only in the one step of rebalance that
\* installs the ring it built, with the write lock free for it to take, or in
\* Close with the write lock held; the ring rebalance builds is not the
\* current one while it is built, and when built it holds every up shard of
\* the map: a lookup never finds a ring with part of the up shards.
C19_AtomicSwap ==
    [][ /\ hash' # hash =>
             \/ hb.pc = "install" /\ hb'.pc = "wait" /\ mu = "unlocked" /\ hash' = hb.built
             \/ mu = "close" /\ closed' /\ hash' = NilMap
        /\ (hb.pc = "rebalance" /\ hb'.pc = "install") =>
             hash' = hash /\ hb'.built = UpRing ]_vars

\* C19 witness: a lookup made between the build of a different ring and its
\* installation found the old ring.
C19_Witness ==
    /\ hb.pc = "install" /\ ~closed
    /\ hb.built.names # hash.names
    /\ acc.who = "GetByKey"
    /\ lastRes.ring = hash.names /\ lastRes.shard \in hash.names \ hb.built.names

\* C20: a probe that succeeds or fails with the pool timeout error is a
\* vote up, which sets the counter of the shard to 0 and changes the status
\* exactly when the shard was down; any other probe result is a vote down,
\* which counts one more failure up to the threshold and changes the status
\* exactly when the threshold is reached.
C20_PoolTimeoutUp ==
    lastVote.shard # NilShard =>
       IF lastVote.err \in {NoErr, ErrPoolTimeout}
       THEN /\ lastVote.after = 0
            /\ lastVote.changed <=> (lastVote.before >= threshold)
       ELSE /\ lastVote.after = (IF lastVote.before >= threshold THEN lastVote.before
                                 ELSE lastVote.before + 1)
            /\ lastVote.changed <=> (lastVote.before = threshold - 1)

\* C20 witness: a probe that failed with the pool timeout error restored a
\* down shard.
C20_Witness ==
    /\ lastVote.shard # NilShard
    /\ lastVote.err = ErrPoolTimeout
    /\ lastVote.before >= threshold /\ lastVote.after = 0 /\ lastVote.changed
    /\ IsUp(down[lastVote.shard])

\* C24: while the registry is open and the heartbeat is between sweeps, or
\* in a sweep that has not yet cast a vote, the shards of the ring in place
\* are the registered shards that are up; at first these are all the
\* registered shards, each with counter 0.
C24_RingIsUpSet ==
    /\ (~closed /\ (hb.pc = "wait" \/ (hb.pc = "probe" /\ hb.i = 1))) =>
          /\ ~hash.nil
          /\ hash.names = {n \in shards : IsUp(down[n])}
    /\ (~closed /\ \A n \in Names : streak[n] = 0 /\ lastVote.shard = NilShard) =>
          /\ hash.names = shards
          /\ \A n \in shards : down[n] = 0

\* C24 witness: a sweep is about to cast its first vote on a registry whose
\* shards a and c are down and out of the ring, shard b being in it with two
\* failed pings counted.
C24_Witness ==
    /\ ~closed /\ hb.pc = "probe" /\ hb.i = 1
    /\ IsDown(down["a"]) /\ IsDown(down["c"]) /\ down["b"] = 2
    /\ hash.names = {"b"}
    /\ prevHash.names # hash.names

\* C22: the failure counter of every shard is an integer from 0 to the
\* threshold 3 in every state the heartbeat can reach: a vote down on a shard
\* that is down leaves it where it is.
C22_CounterRange ==
    /\ \A n \in Names : down[n] \in 0..threshold
    /\ lastVote.shard # NilShard =>
          /\ lastVote.after \in 0..threshold
          /\ lastVote.before = threshold => lastVote.after \in {0, threshold}

\* C22 witness: a shard whose counter was 3 got one more vote down and its
\* counter is 3.
C22_Witness ==
    /\ lastVote.shard # NilShard
    /\ lastVote.err = "ping failed"
    /\ lastVote.before = threshold
    /\ down[lastVote.shard] = threshold

\* C21: the Heartbeat loop has ended only if the registry is closed, whatever
\* the pings returned; once it has ended it casts no vote and touches nothing;
\* it ends at a tick, which starts no sweep; and once the registry is closed
\* the loop eventually ends.
C21_HeartbeatEnds ==
    /\ [](hb.pc = "done" => closed)
    /\ [][hb'.pc = "done" =>
            /\ down' = down /\ hash' = hash /\ lastVote' = lastVote
            /\ (hb.pc # "done" => hb.pc = "wait" /\ closed /\ hb'.shards = hb.shards)]_vars
    /\ (closed ~> hb.pc = "done")

\* C21 witness: every ping failed until all three shards were down, the loop
\* went on, and it ended once the registry was closed.
C21_Witness ==
    /\ hb.pc = "done" /\ closed
    /\ \A n \in Names : down[n] >= threshold

\* ------------------------------------------------------------------------
\* Further claims on the pipeline call
\* ------------------------------------------------------------------------

\* The sub-batches of attempt a that failed in a way that makes them retry
\* candidates.
Candidates(a) ==
    {g \in Groups : /\ p.out[a][g].kind = "net"
                    /\ p.out[a][g].j <= 1
                    /\ IsRetryableError(p.out[a][g].e, TRUE)}

\* What C11 says of every state of a call: the attempts stay within
\* MaxRetries, no operation is dispatched more than MaxRetries + 1 times, an
\* attempt is begun only when the one before left a retry candidate, and the
\* call that has ended before its last attempt left none.
C11_Within ==
    /\ p.attempt \in 0..MaxRetries
    /\ \A k \in Ops : p.disp[k] <= MaxRetries + 1
    /\ \A k \in Ops : p.disp[k] <= p.attempt + 1
    /\ \A a \in 1..p.attempt : Candidates(a - 1) # {}
    /\ (p.pc = "done" /\ p.attempt < MaxRetries) => Candidates(p.attempt) = {}

\* C11: a pipeline call always comes to an end, dispatches no operation
\* more than MaxRetries + 1 times, also when a shard fails with a retryable
\* transport error in every attempt, and stops as soon as an attempt leaves
\* no retry candidate.
C11_BoundedRetries == []C11_Within /\ <>(p.pc \in {"done", "panic"})

\* C11 witness: the exchange with shard b timed out in every attempt; its
\* operation was dispatched MaxRetries + 1 times and the call is over.
C11_Witness ==
    /\ p.pc = "done" /\ p.attempt = MaxRetries
    /\ p.cmds = <<"k1", "k2", "k3">>
    /\ \A a \in 0..MaxRetries : "b" \in Candidates(a)
    /\ p.disp[2] = MaxRetries + 1
    /\ p.errs[2] = "net: i/o timeout"

\* The sub-batch the partition loop put operation k into, and the place of
\* k in it.
GroupOf(k) == CHOOSE g \in Groups : \E x \in DOMAIN p.part[g] : p.part[g][x] = k
PlaceOf(k) == CHOOSE x \in DOMAIN p.part[GroupOf(k)] : p.part[GroupOf(k)][x] = k

\* The outcome of the last attempt in which sub-batch g took part.
LastOutcome(g) ==
    LET as == {a \in 0..MaxRetries : p.out[a][g].kind # "none"}
    IN  p.out[CHOOSE a \in as : \A b \in as : b <= a][g]

\* The error operation k carries after its sub-batch met outcome o.
OwnErr(k, o) ==
    CASE o.kind = "refused" -> o.e
      [] o.kind = "ok"      -> NoErr
      [] o.kind = "reply"   -> IF PlaceOf(k) = o.j THEN o.e ELSE NoErr
      [] o.kind = "net"     -> IF PlaceOf(k) >= o.j THEN o.e ELSE NoErr

\* C13: when the call is over, what it returns is nil exactly if no
\* operation of the batch carries an error, and otherwise the error of the
\* first operation of the batch that carries one; every operation carries
\* what the last outcome of its own sub-batch gave it.
C13_FirstError ==
    p.pc = "done" =>
       /\ p.ret = NoErr <=> \A k \in Ops : p.errs[k] = NoErr
       /\ \A k \in Ops :
             (p.errs[k] # NoErr /\ \A m \in 1..(k - 1) : p.errs[m] = NoErr) =>
                p.ret = p.errs[k]
       /\ \A k \in Ops : p.errs[k] = OwnErr(k, LastOutcome(GroupOf(k)))

\* C13 witness: the first operation went well, the second got an error
\* reply and the third a timeout after a retry; the call returns the error
\* of the second.
C13_Witness ==
    /\ p.pc = "done" /\ p.attempt = 1
    /\ p.cmds = <<"k1", "k2", "k3">>
    /\ p.errs = <<NoErr, "ERR wrong type", "net: i/o timeout">>
    /\ p.ret = "ERR wrong type"

\* The operations of a sub-batch, as a set.
Members(cs) == {cs[x] : x \in DOMAIN cs}

\* C14: a sub-batch holds its operations in the order of the batch, in the
\* first attempt and in every retry, where it is the sub-batch of the first
\* attempt unchanged; the sub-batches of the first attempt hold every
\* operation of the batch exactly once.
C14_SubBatchOrder ==
    p.pc \in {"resolve", "exec", "done"} =>
       /\ \A g \in Groups :
             /\ \A x, y \in DOMAIN p.cmdsMap[g] : x < y => p.cmdsMap[g][x] < p.cmdsMap[g][y]
             /\ p.cmdsMap[g] \in {<<>>, p.part[g]}
             /\ p.attempt = 0 => p.cmdsMap[g] = p.part[g]
       /\ \A k \in Ops : \E g \in Groups : k \in Members(p.part[g])
       /\ \A g, h \in Groups : g # h => Members(p.part[g]) \cap Members(p.part[h]) = {}

\* C14 witness: the sub-batch of shard a, holding the two operations of the
\* batch, is dispatched in a retry.
C14_Witness ==
    /\ p.pc = "exec" /\ p.attempt = 1
    /\ p.cmds = <<"k1", "k4">>
    /\ p.cur.g = "a"
    /\ p.cmdsMap["a"] = <<1, 2>>

\* ------------------------------------------------------------------------
\* Further claims on resolution
\* ------------------------------------------------------------------------

\* C12 (as amended): on an open registry GetByHash("") returns a member of
\* the ring in place, never a registered shard the ring leaves out, and it
\* fails with the all-shards-down error exactly when the ring has no member,
\* whatever shards are registered.
C12_RandomInRing ==
    (lastRes.key = "byhash" /\ ~lastRes.closed) =>
       /\ lastRes.err = NoErr => lastRes.shard \in lastRes.ring
       /\ lastRes.err # NoErr => lastRes.err = errRingShardsDown /\ lastRes.shard = NilShard
       /\ lastRes.err = errRingShardsDown <=> lastRes.ring = {}

\* C12 witness: with three shards registered and only b in the ring, the
\* call returned b.
C12_Witness ==
    /\ lastRes.key = "byhash" /\ ~lastRes.closed
    /\ lastRes.ring = {"b"}
    /\ lastRes.shard = "b"
    /\ shards = Names

\* C12 as stated: on an open registry with a shard registered GetByHash("")
\* does not fail with the all-shards-down error.
C12_AnyRegistered ==
    (lastRes.key = "byhash" /\ ~lastRes.closed) => lastRes.err # errRingShardsDown

\* The sub-batches attempt a has gone through so far.
Tried(a) == {g \in Groups : p.out[a][g].kind # "none"}

\* C23: the sub-batches of an attempt after the first are retry candidates
\* of the attempt before it, all of them once the attempt is over, and those
\* not yet gone through are the ones still to do; a sub-batch that went
\* through an attempt without becoming a retry candidate (it went well, got
\* an error reply, got no shard or no connection) takes part in no later
\* attempt, and its operations carry what that attempt gave them.
C23_RetryResidue ==
    /\ \A a \in 1..MaxRetries :
          /\ Tried(a) \subseteq Candidates(a - 1)
          /\ (a = p.attempt /\ p.pc \in {"resolve", "exec"})
                => Tried(a) \cup p.todo = Candidates(a - 1)
          /\ (a <= p.attempt /\ p.pc = "done") => Tried(a) = Candidates(a - 1)
          /\ (a > p.attempt) => Tried(a) = {}
    /\ \A a \in 0..MaxRetries : \A g \in Tried(a) \ Candidates(a) :
          /\ \A b \in (a + 1)..MaxRetries : g \notin Tried(b)
          /\ \A k \in Ops : GroupOf(k) = g => p.errs[k] = OwnErr(k, p.out[a][g])

\* C23 witness: in the first attempt one sub-batch got no connection, one
\* timed out before the write and one got an error reply; the second attempt
\* went through the one that timed out only, and the call is over.
C23_Witness ==
    /\ p.pc = "done" /\ p.attempt = 1 /\ ~p.sawClosed
    /\ p.cmds = <<"k1", "k2", "k3">>
    /\ p.out[0]["a"] = Refused(ErrPoolTimeout)
    /\ p.out[0]["b"] = [kind |-> "net", j |-> 0, e |-> "net: i/o timeout"]
    /\ p.out[0]["c"].kind = "reply"
    /\ Tried(1) = {"b"}
    /\ p.out[1]["b"].kind = "ok"
    /\ p.got = 3

\* The dispatches so far (attempt, sub-batch) whose exchange ended in one of
\* the ways of kinds.
Ended(kinds) ==
    {x \in (0..MaxRetries) \X Groups : p.out[x[1]][x[2]].kind \in kinds}

\* C25: every connection the call got from a pool has been put back or
\* removed, never both, when the call moves on to the next sub-batch and when
\* it is over: put back after an exchange that went well or that the backend
\* answered with an error reply, removed after an exchange that failed in
\* any other way; a sub-batch that got no shard or no connection took none.
C25_ConnReleased ==
    /\ p.got = p.put + p.removed
    /\ p.got = Cardinality(Ended({"ok", "reply", "net"}))
    /\ p.put = Cardinality(Ended({"ok", "reply"}))
    /\ p.removed = Cardinality(Ended({"net"}))
    /\ p.last.kind \in {"ok", "reply"} => p.last.put
    /\ p.last.kind = "net" => ~p.last.put

\* C25 witness: a call is over in which one exchange went well, one was
\* answered with an error reply, one timed out and its retry met an error of
\* no class: two connections were put back and two removed.
C25_Witness ==
    /\ p.pc = "done" /\ p.attempt = 1
    /\ p.cmds = <<"k1", "k2", "k3">>
    /\ p.out[0]["a"].kind = "ok"
    /\ p.out[0]["b"] = [kind |-> "net", j |-> 0, e |-> "net: i/o timeout"]
    /\ p.out[0]["c"] = [kind |-> "reply", j |-> 1, e |-> "ERR wrong type"]
    /\ p.out[1]["b"] = [kind |-> "net", j |-> 1, e |-> ProtoError]
    /\ p.got = 4 /\ p.put = 2 /\ p.removed = 2

====
